---- MODULE Spec2Model ----
(***************************************************************************)
(* Model of the lifecycle glue of rahul-auraml/headless:                   *)
(*   docker_manager.py      DockerManager and its module-level wrappers    *)
(*   simulation_manager.py  the module globals, shutdown(), keep_alive()   *)
(*   startup.py             main() and the timeout_monitor thread          *)
(*                                                                         *)
(* External processes and the vendor application are opaque: an external   *)
(* call is an input drawn from the outcomes subprocess.run can have, and   *)
(* the vendor application is the pair (app_running, closes).               *)
(***************************************************************************)
EXTENDS Integers, Sequences, FiniteSets, TLC

\* ------------------------------------------------------------------ bounds
MaxLines == 2      \* lines of captured standard output of one external call
MaxCalls == 3      \* DockerManager operations called in the API harness
MaxTicks == 2      \* app.update() ticks counted in one run of main

\* ------------------------------------------------- external call outcomes
\* One captured line: blank, a JSON document, or text that is not JSON.
Lines == {"", "json", "junk"}

RECURSIVE SeqsUpTo(_, _)
SeqsUpTo(S, n) ==
    IF n = 0 THEN {<< >>}
    ELSE LET shorter == SeqsUpTo(S, n - 1)
         IN  shorter \cup {Append(s, x) : s \in {t \in shorter : Len(t) = n - 1}, x \in S}

Stdouts == SeqsUpTo(Lines, MaxLines)

\* What subprocess.run can do: return a CompletedProcess, or raise
\* TimeoutExpired, or raise FileNotFoundError (no executable).
ProcOutcomes(outs) ==
    {[kind |-> "exit", rc |-> r, out |-> o] : r \in {0, 1}, o \in outs}
    \cup {[kind |-> "timeout", rc |-> 0, out |-> << >>],
          [kind |-> "notfound", rc |-> 0, out |-> << >>]}

\* Calls whose standard output the code only logs.
RcOutcomes == ProcOutcomes({<< >>})
\* Calls whose standard output the code reads.
OutOutcomes == ProcOutcomes(Stdouts)
\* "docker images -q": nothing, a blank line, or an image id.
ImgOutcomes == ProcOutcomes({<< >>, <<"">>, <<"junk">>})
\* "docker run": nothing, or text with or without a trailing blank line.
RunOutcomes == ProcOutcomes({<< >>, <<"junk">>, <<"junk", "">>})

\* str.strip(): drop leading and trailing blank lines.
RECURSIVE StripLeft(_)
StripLeft(s) == IF s # << >> /\ Head(s) = "" THEN StripLeft(Tail(s)) ELSE s

RECURSIVE StripRight(_)
StripRight(s) ==
    IF s # << >> /\ s[Len(s)] = "" THEN StripRight(SubSeq(s, 1, Len(s) - 1)) ELSE s

Strip(s) == StripRight(StripLeft(s))

\* ------------------------------------------------------- DockerManager
\* Every operation returns [ret, cmds, type, raised, fault]: the value
\* handed to the caller and its Python type, the external commands it
\* invoked, in order, each with the verdict the code reached on it, whether
\* an exception left the operation instead of a value, and how the last
\* external command it invoked failed ("none" when it did not, or when no
\* command was invoked).
Cmd(c, ok) == [cmd |-> c, ok |-> ok]

\* The failure kind of an outcome of subprocess.run.
Fault(o) ==
    IF o.kind = "exit" THEN (IF o.rc = 0 THEN "none" ELSE "nonzero") ELSE o.kind

\* Outcome kinds that are exceptions raised by subprocess.run.
Exceptions == {"timeout", "notfound"}
\* "except (subprocess.TimeoutExpired, FileNotFoundError)"
CaughtByAvailabilityCheck == {"timeout", "notfound"}
\* "except subprocess.TimeoutExpired" followed by "except Exception"
CaughtByException == Exceptions
\* The exception of outcome o passes the except clauses.
Escapes(o, caught) == o.kind \in (Exceptions \ caught)

\* Variant: FileNotFoundError is missing from the except clause.
check_docker_availability_narrow(o) ==
    LET ok == (o.kind = "exit" /\ o.rc = 0)
    IN  [ret |-> ok, cmds |-> <<Cmd("version", ok)>>, type |-> "bool",
         raised |-> Escapes(o, {"timeout"}), fault |-> Fault(o)]

check_docker_availability(o) ==
    LET ok == (o.kind = "exit" /\ o.rc = 0)
    IN  [ret |-> ok, cmds |-> <<Cmd("version", ok)>>, type |-> "bool",
         raised |-> Escapes(o, CaughtByAvailabilityCheck), fault |-> Fault(o)]

check_image(docker_available, o) ==
    IF ~docker_available
    THEN [ret |-> FALSE, cmds |-> << >>, type |-> "bool",
          raised |-> FALSE, fault |-> "none"]
    ELSE LET ok == (o.kind = "exit" /\ o.rc = 0 /\ Strip(o.out) # << >>)
         IN  [ret |-> ok, cmds |-> <<Cmd("images", ok)>>, type |-> "bool",
              raised |-> Escapes(o, CaughtByException), fault |-> Fault(o)]

pull_image(docker_available, o) ==
    IF ~docker_available
    THEN [ret |-> FALSE, cmds |-> << >>, type |-> "bool",
          raised |-> FALSE, fault |-> "none"]
    ELSE LET ok == (o.kind = "exit" /\ o.rc = 0)
         IN  [ret |-> ok, cmds |-> <<Cmd("pull", ok)>>, type |-> "bool",
              raised |-> Escapes(o, CaughtByException), fault |-> Fault(o)]

RunFailure(err) ==
    [success |-> FALSE, output |-> << >>, error |-> err, return_code |-> -1]

\* The subprocess.run of the assembled "docker run" command and the
\* conversion of its outcome into the result record.
run_exec(detach, o) ==
    IF o.kind = "exit"
    THEN [success     |-> (o.rc = 0),
          output      |-> IF detach THEN Strip(o.out) ELSE o.out,
          error       |-> "stderr",
          return_code |-> o.rc]
    ELSE IF o.kind = "timeout"
    THEN RunFailure("Timeout running container")
    ELSE RunFailure("Error running container")

\* Variant: the result of pull_image is not looked at.
run_docker_ignoring_pull(docker_available, detach, oImg, oPull, oRun) ==
    IF ~docker_available
    THEN [ret |-> RunFailure("Docker is not available"), cmds |-> << >>,
          type |-> "record", raised |-> FALSE, fault |-> "none"]
    ELSE LET ci  == check_image(docker_available, oImg)
             pl  == pull_image(docker_available, oPull)
             res == run_exec(detach, oRun)
         IN  [ret  |-> res,
              cmds |-> (IF ci.ret THEN ci.cmds ELSE ci.cmds \o pl.cmds)
                       \o <<Cmd("run", res.success)>>,
              type |-> "record",
              raised |-> Escapes(oRun, CaughtByException),
              fault |-> Fault(oRun)]

run_docker(docker_available, detach, oImg, oPull, oRun) ==
    IF ~docker_available
    THEN [ret |-> RunFailure("Docker is not available"), cmds |-> << >>,
          type |-> "record", raised |-> FALSE, fault |-> "none"]
    ELSE LET ci  == check_image(docker_available, oImg)
             pl  == pull_image(docker_available, oPull)
             res == run_exec(detach, oRun)
         IN  IF ~ci.ret /\ ~pl.ret
             THEN [ret  |-> RunFailure("Failed to pull image"),
                   cmds |-> ci.cmds \o pl.cmds,
                   type |-> "record",
                   raised |-> (ci.raised \/ pl.raised),
                   fault |-> pl.fault]
             ELSE [ret  |-> res,
                   cmds |-> (IF ci.ret THEN ci.cmds ELSE ci.cmds \o pl.cmds)
                            \o <<Cmd("run", res.success)>>,
                   type |-> "record",
                   raised |-> (ci.raised \/ (~ci.ret /\ pl.raised)
                               \/ Escapes(oRun, CaughtByException)),
                   fault |-> Fault(oRun)]

\* json.loads of every non-blank line; a line that is not JSON raises.
RECURSIVE ParseLines(_)
ParseLines(ls) ==
    IF ls = << >> THEN [raised |-> FALSE, containers |-> << >>]
    ELSE IF Head(ls) = "" THEN ParseLines(Tail(ls))
    ELSE IF Head(ls) = "junk" THEN [raised |-> TRUE, containers |-> << >>]
    ELSE LET rest == ParseLines(Tail(ls))
         IN  IF rest.raised THEN rest
             ELSE [raised |-> FALSE, containers |-> <<"container">> \o rest.containers]

list_containers(docker_available, o) ==
    IF ~docker_available
    THEN [ret |-> << >>, cmds |-> << >>, type |-> "list",
          raised |-> FALSE, fault |-> "none"]
    ELSE LET parsed == ParseLines(Strip(o.out))
             ok     == (o.kind = "exit" /\ o.rc = 0 /\ ~parsed.raised)
         IN  [ret  |-> IF ok THEN parsed.containers ELSE << >>,
              cmds |-> <<Cmd("ps", ok)>>, type |-> "list",
              raised |-> Escapes(o, CaughtByException), fault |-> Fault(o)]

\* Variant: the availability guard is missing.
stop_container_unguarded(docker_available, o) ==
    LET ok == (o.kind = "exit" /\ o.rc = 0)
    IN  [ret |-> ok, cmds |-> <<Cmd("stop", ok)>>, type |-> "bool",
         raised |-> Escapes(o, CaughtByException), fault |-> Fault(o)]

stop_container(docker_available, o) ==
    IF ~docker_available
    THEN [ret |-> FALSE, cmds |-> << >>, type |-> "bool",
          raised |-> FALSE, fault |-> "none"]
    ELSE LET ok == (o.kind = "exit" /\ o.rc = 0)
         IN  [ret |-> ok, cmds |-> <<Cmd("stop", ok)>>, type |-> "bool",
              raised |-> Escapes(o, CaughtByException), fault |-> Fault(o)]

\* Module-level wrappers: get_docker_manager() builds the single manager on
\* first use, running the availability check once. An exception leaving
\* the constructor leaves _docker_manager unset.
get_docker_manager(dm, o) ==
    IF dm.created
    THEN [dm |-> dm, cmds |-> << >>, raised |-> FALSE, fault |-> "none"]
    ELSE LET chk == check_docker_availability(o)
         IN  [dm     |-> IF chk.raised THEN dm
                         ELSE [created |-> TRUE, docker_available |-> chk.ret],
              cmds   |-> chk.cmds,
              raised |-> chk.raised,
              fault  |-> chk.fault]

\* A returned Python value together with its type: a bool, a list, or the
\* result dict of run_docker.
Value(type, ret) ==
    CASE type = "bool" -> [bool |-> ret]
      [] type = "list" -> [list |-> ret]
      [] OTHER -> ret

\* No value: no call was made, or the call raised.
NoValue == [none |-> TRUE]

\* startup.py imports stop_and_remove_container from docker_manager, whose
\* definition is not part of the sources at hand: stop the container, then
\* remove it, reporting whether both succeeded.
stop_and_remove_container(docker_available, oStop, oRm) ==
    LET st == stop_container(docker_available, oStop)
        ok == (oRm.kind = "exit" /\ oRm.rc = 0)
    IN  IF ~st.ret THEN st
        ELSE [ret |-> ok, cmds |-> st.cmds \o <<Cmd("rm", ok)>>,
              type |-> "bool", raised |-> FALSE, fault |-> Fault(oRm)]

\* ------------------------------------------------- simulation_manager
\* Variant: the argument is stored negated.
set_keep_running_negated(value) == ~value

set_keep_running(value) == value

\* ------------------------------------------------------------- state
VARIABLES
    docker_manager,     \* _docker_manager: [created, docker_available]
    cmds,               \* every external docker command invoked so far
    last_call,          \* the latest DockerManager call and its result
    calls,              \* operations called by the API harness
    pc,                 \* position of the main thread and the timeout thread
    global_sim_setup,   \* _global_sim_setup: TRUE = the handle, FALSE = None
    keep_running,       \* _keep_running
    app_running,        \* vendor application: what app.is_running() answers
    closes,             \* simulation_app.close() calls on the handle
    updates,            \* app.update() ticks started
    interrupted,        \* a KeyboardInterrupt was delivered during keep_alive
    robot_result,       \* "none", or robot_result["success"] as "ok"/"failed"
    flag_writes,        \* the writes of _keep_running, in order
    late_ticks,         \* ticks started while _keep_running was false
    closed_ticks,       \* ticks started after close() had been called
    ka_entered,         \* main called keep_alive()
    stop_called         \* main called stop_and_remove_container()

dockerVars == <<docker_manager, cmds, last_call, calls>>
simVars == <<pc, global_sim_setup, keep_running, app_running, closes, updates,
             interrupted, robot_result, flag_writes, late_ticks, closed_ticks,
             ka_entered, stop_called>>
vars == <<docker_manager, cmds, last_call, calls, pc, global_sim_setup,
          keep_running, app_running, closes, updates, interrupted,
          robot_result, flag_writes, late_ticks, closed_ticks, ka_entered,
          stop_called>>

Threads == {"main", "timeout"}

Init ==
    /\ docker_manager = [created |-> FALSE, docker_available |-> FALSE]
    /\ cmds = << >>
    /\ last_call = [op |-> "none", ret |-> NoValue, cmds |-> << >>,
                    type |-> "none", raised |-> FALSE,
                    fault |-> "none", avail_fault |-> "none"]
    /\ calls = 0
    /\ pc = [main |-> "start", timeout |-> "unstarted"]
    /\ global_sim_setup = FALSE
    /\ keep_running = TRUE
    /\ app_running = FALSE
    /\ closes = 0
    /\ updates = 0
    /\ interrupted = FALSE
    /\ robot_result = "none"
    /\ flag_writes = << >>
    /\ late_ticks = 0
    /\ closed_ticks = 0
    /\ ka_entered = FALSE
    /\ stop_called = FALSE

\* ------------------------------------------- DockerManager API harness
\* The outcome of the availability check is an input only of the call that
\* constructs the manager.
AvailOutcomes == IF docker_manager.created
                 THEN {[kind |-> "exit", rc |-> 0, out |-> << >>]}
                 ELSE RcOutcomes

\* The call op() of a module-level wrapper: get_docker_manager(), then the
\* operation; an exception leaving the availability check leaves the call
\* before the operation runs.
Record(op, mgr, r) ==
    /\ docker_manager' = mgr.dm
    /\ IF mgr.raised
       THEN /\ cmds' = cmds \o mgr.cmds
            /\ last_call' = [op |-> op, ret |-> NoValue, cmds |-> << >>,
                             type |-> "none", raised |-> TRUE,
                             fault |-> "none", avail_fault |-> mgr.fault]
       ELSE /\ cmds' = cmds \o mgr.cmds \o r.cmds
            /\ last_call' = [op |-> op, ret |-> Value(r.type, r.ret),
                             cmds |-> r.cmds,
                             type |-> r.type, raised |-> r.raised,
                             fault |-> r.fault, avail_fault |-> mgr.fault]

CallCheckImage ==
    /\ calls < MaxCalls
    /\ \E oA \in AvailOutcomes, o \in ImgOutcomes :
         LET mgr == get_docker_manager(docker_manager, oA)
         IN  Record("check_image", mgr, check_image(mgr.dm.docker_available, o))
    /\ calls' = calls + 1
    /\ UNCHANGED simVars

CallPullImage ==
    /\ calls < MaxCalls
    /\ \E oA \in AvailOutcomes, o \in RcOutcomes :
         LET mgr == get_docker_manager(docker_manager, oA)
         IN  Record("pull_image", mgr, pull_image(mgr.dm.docker_available, o))
    /\ calls' = calls + 1
    /\ UNCHANGED simVars

CallRunDocker ==
    /\ calls < MaxCalls
    /\ \E oA \in AvailOutcomes, detach \in BOOLEAN,
          oImg \in ImgOutcomes, oPull \in RcOutcomes, oRun \in RunOutcomes :
         LET mgr == get_docker_manager(docker_manager, oA)
         IN  Record("run_docker", mgr,
                    run_docker(mgr.dm.docker_available, detach, oImg, oPull, oRun))
    /\ calls' = calls + 1
    /\ UNCHANGED simVars

CallListContainers ==
    /\ calls < MaxCalls
    /\ \E oA \in AvailOutcomes, o \in OutOutcomes :
         LET mgr == get_docker_manager(docker_manager, oA)
         IN  Record("list_containers", mgr,
                    list_containers(mgr.dm.docker_available, o))
    /\ calls' = calls + 1
    /\ UNCHANGED simVars

CallStopContainer ==
    /\ calls < MaxCalls
    /\ \E oA \in AvailOutcomes, o \in RcOutcomes :
         LET mgr == get_docker_manager(docker_manager, oA)
         IN  Record("stop_container", mgr,
                    stop_container(mgr.dm.docker_available, o))
    /\ calls' = calls + 1
    /\ UNCHANGED simVars

NextDocker ==
    \/ CallCheckImage
    \/ CallPullImage
    \/ CallRunDocker
    \/ CallListContainers
    \/ CallStopContainer

SpecDocker == Init /\ [][NextDocker]_vars


\* ------------------------------------------------------------ threads
Min(a, b) == IF a < b THEN a ELSE b

\* main has returned or died; the timeout thread is a daemon thread and
\* ends with it.
MainEnded == {"done", "exit_init_failed", "exit_start_failed", "crashed"}
MainAlive == pc["main"] \notin MainEnded

\* Positions of main inside the loop of keep_alive().
InKeepAlive == {"ka_flag", "ka_sim1", "ka_isrun", "ka_sim2", "ka_update"}

Goto(t, l) == pc' = [pc EXCEPT ![t] = l]

\* One write of _keep_running: the writer, and how many shutdown() calls
\* had returned when it was made.
FlagWrite(by) ==
    [by |-> by, returned |-> Cardinality({t \in Threads : pc[t] = "done"})]

\* SimulationSetup.shutdown(): simulation_app is set by the constructor and
\* never cleared, so every call closes it.
SimulationSetup_shutdown(c) == c + 1

\* --- simulation_manager.run_isaac_sim, called by main
RunIsaacSim ==
    /\ pc["main"] = "start"
    /\ global_sim_setup' = TRUE
    /\ \E setup_ok \in BOOLEAN :
         IF setup_ok
         THEN /\ app_running' = TRUE
              /\ closes' = closes
              /\ Goto("main", "start_sim")
         ELSE /\ app_running' = FALSE
              /\ closes' = SimulationSetup_shutdown(closes)
              /\ Goto("main", "exit_init_failed")
    /\ UNCHANGED <<keep_running, updates, interrupted, robot_result, flag_writes,
                   late_ticks, closed_ticks, ka_entered, stop_called>>
    /\ UNCHANGED dockerVars

\* --- simulation_manager.start_simulation, called by main
StartSimulation ==
    /\ pc["main"] = "start_sim"
    /\ \E played \in BOOLEAN :
         IF global_sim_setup /\ played
         THEN Goto("main", "run_docker")
         ELSE Goto("main", "exit_start_failed")
    /\ UNCHANGED <<global_sim_setup, keep_running, app_running, closes, updates,
                   interrupted, robot_result, flag_writes, late_ticks,
                   closed_ticks, ka_entered, stop_called>>
    /\ UNCHANGED dockerVars

\* Variant: main returns when the container failed to start.
MainRunDocker_fatal ==
    /\ pc["main"] = "run_docker"
    /\ \E oA \in AvailOutcomes, oImg \in ImgOutcomes,
          oPull \in RcOutcomes, oRun \in RunOutcomes :
         LET mgr == get_docker_manager(docker_manager, oA)
             r   == run_docker(mgr.dm.docker_available, TRUE, oImg, oPull, oRun)
         IN  /\ Record("run_docker", mgr, r)
             /\ robot_result' = IF r.ret.success THEN "ok" ELSE "failed"
             /\ IF r.ret.success THEN Goto("main", "start_thread")
                                 ELSE Goto("main", "done")
    /\ UNCHANGED <<calls, global_sim_setup, keep_running, app_running, closes,
                   updates, interrupted, flag_writes, late_ticks, closed_ticks,
                   ka_entered, stop_called>>

\* --- main: start the robot container; a failure is only reported
MainRunDocker ==
    /\ pc["main"] = "run_docker"
    /\ \E oA \in AvailOutcomes, oImg \in ImgOutcomes,
          oPull \in RcOutcomes, oRun \in RunOutcomes :
         LET mgr == get_docker_manager(docker_manager, oA)
             r   == run_docker(mgr.dm.docker_available, TRUE, oImg, oPull, oRun)
         IN  /\ Record("run_docker", mgr, r)
             /\ robot_result' = IF r.ret.success THEN "ok" ELSE "failed"
    /\ Goto("main", "start_thread")
    /\ UNCHANGED <<calls, global_sim_setup, keep_running, app_running, closes,
                   updates, interrupted, flag_writes, late_ticks, closed_ticks,
                   ka_entered, stop_called>>

\* --- main: threading.Thread(target=timeout_monitor, daemon=True).start()
StartTimeoutThread ==
    /\ pc["main"] = "start_thread"
    /\ pc' = [pc EXCEPT !["main"] = "keep_alive", !["timeout"] = "sleep"]
    /\ UNCHANGED <<global_sim_setup, keep_running, app_running, closes, updates,
                   interrupted, robot_result, flag_writes, late_ticks,
                   closed_ticks, ka_entered, stop_called>>
    /\ UNCHANGED dockerVars

\* --- simulation_manager.keep_alive: "if _global_sim_setup:"
KeepAliveEnter ==
    /\ pc["main"] = "keep_alive"
    /\ ka_entered' = TRUE
    /\ IF global_sim_setup THEN Goto("main", "ka_flag") ELSE Goto("main", "stop")
    /\ UNCHANGED <<global_sim_setup, keep_running, app_running, closes, updates,
                   interrupted, robot_result, flag_writes, late_ticks,
                   closed_ticks, stop_called>>
    /\ UNCHANGED dockerVars

\* Variant: the loop condition does not look at the flag.
KeepAliveFlag_unread ==
    /\ pc["main"] = "ka_flag"
    /\ Goto("main", "ka_sim1")
    /\ UNCHANGED <<global_sim_setup, keep_running, app_running, closes, updates,
                   interrupted, robot_result, flag_writes, late_ticks,
                   closed_ticks, ka_entered, stop_called>>
    /\ UNCHANGED dockerVars

\* --- keep_alive: "while _keep_running and ..." reads the flag
KeepAliveFlag ==
    /\ pc["main"] = "ka_flag"
    /\ IF keep_running THEN Goto("main", "ka_sim1") ELSE Goto("main", "stop")
    /\ UNCHANGED <<global_sim_setup, keep_running, app_running, closes, updates,
                   interrupted, robot_result, flag_writes, late_ticks,
                   closed_ticks, ka_entered, stop_called>>
    /\ UNCHANGED dockerVars

\* --- keep_alive: "_global_sim_setup.omni_kit_app" of the loop condition;
\*     on None the AttributeError is caught by "except Exception".
KeepAliveCondHandle ==
    /\ pc["main"] = "ka_sim1"
    /\ IF global_sim_setup THEN Goto("main", "ka_isrun") ELSE Goto("main", "stop")
    /\ UNCHANGED <<global_sim_setup, keep_running, app_running, closes, updates,
                   interrupted, robot_result, flag_writes, late_ticks,
                   closed_ticks, ka_entered, stop_called>>
    /\ UNCHANGED dockerVars

\* --- keep_alive: "....get_app().is_running()"
KeepAliveIsRunning ==
    /\ pc["main"] = "ka_isrun"
    /\ IF app_running THEN Goto("main", "ka_sim2") ELSE Goto("main", "stop")
    /\ UNCHANGED <<global_sim_setup, keep_running, app_running, closes, updates,
                   interrupted, robot_result, flag_writes, late_ticks,
                   closed_ticks, ka_entered, stop_called>>
    /\ UNCHANGED dockerVars

\* --- keep_alive: "_global_sim_setup.omni_kit_app" of the loop body
KeepAliveBodyHandle ==
    /\ pc["main"] = "ka_sim2"
    /\ IF global_sim_setup THEN Goto("main", "ka_update") ELSE Goto("main", "stop")
    /\ UNCHANGED <<global_sim_setup, keep_running, app_running, closes, updates,
                   interrupted, robot_result, flag_writes, late_ticks,
                   closed_ticks, ka_entered, stop_called>>
    /\ UNCHANGED dockerVars

\* --- keep_alive: "....get_app().update()"; what update() does on a closed
\*     application is the vendor's business: it returns or it raises.
KeepAliveUpdate ==
    /\ pc["main"] = "ka_update"
    /\ updates' = Min(updates + 1, MaxTicks)
    /\ late_ticks' = IF keep_running THEN late_ticks ELSE Min(late_ticks + 1, MaxTicks)
    /\ closed_ticks' = IF closes = 0 THEN closed_ticks ELSE Min(closed_ticks + 1, MaxTicks)
    /\ \E raises \in (IF closes = 0 THEN {FALSE} ELSE BOOLEAN) :
         IF raises THEN Goto("main", "stop") ELSE Goto("main", "ka_flag")
    /\ UNCHANGED <<global_sim_setup, keep_running, app_running, closes,
                   interrupted, robot_result, flag_writes, ka_entered, stop_called>>
    /\ UNCHANGED dockerVars

\* --- the vendor application stops on its own (its window is closed)
AppStops ==
    /\ MainAlive
    /\ app_running
    /\ app_running' = FALSE
    /\ UNCHANGED <<pc, global_sim_setup, keep_running, closes, updates,
                   interrupted, robot_result, flag_writes, late_ticks,
                   closed_ticks, ka_entered, stop_called>>
    /\ UNCHANGED dockerVars

\* --- KeyboardInterrupt delivered to the main thread while it runs the
\*     loop of keep_alive(); keep_alive's "except Exception" does not catch
\*     it, main's "except KeyboardInterrupt" does.
Interrupt ==
    /\ pc["main"] \in InKeepAlive
    /\ ~interrupted
    /\ interrupted' = TRUE
    /\ Goto("main", "int_handler")
    /\ UNCHANGED <<global_sim_setup, keep_running, app_running, closes, updates,
                   robot_result, flag_writes, late_ticks, closed_ticks,
                   ka_entered, stop_called>>
    /\ UNCHANGED dockerVars

\* --- main: "except KeyboardInterrupt: set_keep_running(False)"
InterruptHandler ==
    /\ pc["main"] = "int_handler"
    /\ keep_running' = set_keep_running(FALSE)
    /\ flag_writes' = Append(flag_writes, FlagWrite("interrupt"))
    /\ Goto("main", "stop")
    /\ UNCHANGED <<global_sim_setup, app_running, closes, updates, interrupted,
                   robot_result, late_ticks, closed_ticks, ka_entered, stop_called>>
    /\ UNCHANGED dockerVars

\* --- main: stop_and_remove_container("robot_container")
MainStopContainer ==
    /\ pc["main"] = "stop"
    /\ \E oA \in AvailOutcomes, oStop \in RcOutcomes, oRm \in RcOutcomes :
         LET mgr == get_docker_manager(docker_manager, oA)
         IN  Record("stop_and_remove_container", mgr,
                    stop_and_remove_container(mgr.dm.docker_available, oStop, oRm))
    /\ stop_called' = TRUE
    /\ Goto("main", "sd1")
    /\ UNCHANGED <<calls, global_sim_setup, keep_running, app_running, closes,
                   updates, interrupted, robot_result, flag_writes, late_ticks,
                   closed_ticks, ka_entered>>

\* --- timeout_monitor: time.sleep(TIMEOUT) returns
TimeoutFires ==
    /\ MainAlive
    /\ pc["timeout"] = "sleep"
    /\ Goto("timeout", "t_set")
    /\ UNCHANGED <<global_sim_setup, keep_running, app_running, closes, updates,
                   interrupted, robot_result, flag_writes, late_ticks,
                   closed_ticks, ka_entered, stop_called>>
    /\ UNCHANGED dockerVars

\* --- timeout_monitor: set_keep_running(False)
TimeoutSetFlag ==
    /\ MainAlive
    /\ pc["timeout"] = "t_set"
    /\ keep_running' = set_keep_running(FALSE)
    /\ flag_writes' = Append(flag_writes, FlagWrite("timeout"))
    /\ Goto("timeout", "sd1")
    /\ UNCHANGED <<global_sim_setup, app_running, closes, updates, interrupted,
                   robot_result, late_ticks, closed_ticks, ka_entered, stop_called>>
    /\ UNCHANGED dockerVars

\* Variant: shutdown() leaves the flag alone.
ShutdownFlag_unwritten(t) ==
    /\ MainAlive
    /\ pc[t] = "sd1"
    /\ Goto(t, "sd2")
    /\ UNCHANGED <<global_sim_setup, keep_running, app_running, closes, updates,
                   interrupted, robot_result, flag_writes, late_ticks,
                   closed_ticks, ka_entered, stop_called>>
    /\ UNCHANGED dockerVars

\* --- simulation_manager.shutdown(), called by the timeout thread and by
\*     main's teardown, one step per access to the module globals.
\*     "_keep_running = False"
ShutdownFlag(t) ==
    /\ MainAlive
    /\ pc[t] = "sd1"
    /\ keep_running' = FALSE
    /\ flag_writes' = Append(flag_writes, FlagWrite(t))
    /\ Goto(t, "sd2")
    /\ UNCHANGED <<global_sim_setup, app_running, closes, updates, interrupted,
                   robot_result, late_ticks, closed_ticks, ka_entered, stop_called>>
    /\ UNCHANGED dockerVars

\*     "if _global_sim_setup:" ... "else: print(...)"
ShutdownTest(t) ==
    /\ MainAlive
    /\ pc[t] = "sd2"
    /\ IF global_sim_setup THEN Goto(t, "sd3") ELSE Goto(t, "done")
    /\ UNCHANGED <<global_sim_setup, keep_running, app_running, closes, updates,
                   interrupted, robot_result, flag_writes, late_ticks,
                   closed_ticks, ka_entered, stop_called>>
    /\ UNCHANGED dockerVars

\*     "_global_sim_setup.shutdown()": the global is read again; on None the
\*     AttributeError leaves shutdown() and ends the calling thread.
ShutdownClose(t) ==
    /\ MainAlive
    /\ pc[t] = "sd3"
    /\ IF global_sim_setup
       THEN /\ closes' = SimulationSetup_shutdown(closes)
            /\ app_running' = FALSE
            /\ Goto(t, "sd4")
       ELSE /\ UNCHANGED <<closes, app_running>>
            /\ Goto(t, "crashed")
    /\ UNCHANGED <<global_sim_setup, keep_running, updates, interrupted,
                   robot_result, flag_writes, late_ticks, closed_ticks,
                   ka_entered, stop_called>>
    /\ UNCHANGED dockerVars

\* Variant: the global reference is not cleared.
ShutdownClear_kept(t) ==
    /\ MainAlive
    /\ pc[t] = "sd4"
    /\ Goto(t, "done")
    /\ UNCHANGED <<global_sim_setup, keep_running, app_running, closes, updates,
                   interrupted, robot_result, flag_writes, late_ticks,
                   closed_ticks, ka_entered, stop_called>>
    /\ UNCHANGED dockerVars

\*     "_global_sim_setup = None"
ShutdownClear(t) ==
    /\ MainAlive
    /\ pc[t] = "sd4"
    /\ global_sim_setup' = FALSE
    /\ Goto(t, "done")
    /\ UNCHANGED <<keep_running, app_running, closes, updates, interrupted,
                   robot_result, flag_writes, late_ticks, closed_ticks,
                   ka_entered, stop_called>>
    /\ UNCHANGED dockerVars

Next ==
    \/ RunIsaacSim
    \/ StartSimulation
    \/ MainRunDocker
    \/ StartTimeoutThread
    \/ KeepAliveEnter
    \/ KeepAliveFlag
    \/ KeepAliveCondHandle
    \/ KeepAliveIsRunning
    \/ KeepAliveBodyHandle
    \/ KeepAliveUpdate
    \/ AppStops
    \/ Interrupt
    \/ InterruptHandler
    \/ MainStopContainer
    \/ TimeoutFires
    \/ TimeoutSetFlag
    \/ \E t \in Threads : ShutdownFlag(t)
    \/ \E t \in Threads : ShutdownTest(t)
    \/ \E t \in Threads : ShutdownClose(t)
    \/ \E t \in Threads : ShutdownClear(t)

Spec == Init /\ [][Next]_vars

\* The steps of the main thread and of the timeout thread. Both are
\* operating-system threads: each is scheduled again and again, and every
\* external call returns, so a thread that can take a step eventually
\* takes one. The interrupt and the application stopping on its own are
\* the environment's and carry no fairness.
MainStep ==
    \/ RunIsaacSim
    \/ StartSimulation
    \/ MainRunDocker
    \/ StartTimeoutThread
    \/ KeepAliveEnter
    \/ KeepAliveFlag
    \/ KeepAliveCondHandle
    \/ KeepAliveIsRunning
    \/ KeepAliveBodyHandle
    \/ KeepAliveUpdate
    \/ InterruptHandler
    \/ MainStopContainer
    \/ ShutdownFlag("main")
    \/ ShutdownTest("main")
    \/ ShutdownClose("main")
    \/ ShutdownClear("main")

TimeoutStep ==
    \/ TimeoutSetFlag
    \/ ShutdownFlag("timeout")
    \/ ShutdownTest("timeout")
    \/ ShutdownClose("timeout")
    \/ ShutdownClear("timeout")

\* Every step of either thread moves its program position.
FairSpec == Spec /\ WF_pc(MainStep) /\ WF_pc(TimeoutStep)


\* =====================================================================
\* Properties of the DockerManager (checked under SpecDocker)
\* =====================================================================
ApiOps == {"check_image", "pull_image", "run_docker", "list_containers",
           "stop_container"}

IsFailureValue(op, ret) ==
    CASE op \in {"check_image", "pull_image", "stop_container"} ->
              ret = [bool |-> FALSE]
      [] op = "run_docker" -> (ret.success = FALSE /\ ret.return_code = -1)
      [] op = "list_containers" -> ret = [list |-> << >>]
      [] OTHER -> FALSE

Issued(log, c) == \E i \in 1..Len(log) : log[i].cmd = c
IssuedAs(log, c, ok) == \E i \in 1..Len(log) : log[i] = Cmd(c, ok)

\* C1: when the availability check made at construction failed, every call
\* of check_image, pull_image, run_docker, list_containers and
\* stop_container invokes no external command (the only command ever
\* invoked is the failed availability check) and returns its failure value.
C1_UnavailableShortCircuits ==
    (docker_manager.created /\ ~docker_manager.docker_available
        /\ last_call.op \in ApiOps)
    => /\ last_call.cmds = << >>
       /\ cmds = <<Cmd("version", FALSE)>>
       /\ IsFailureValue(last_call.op, last_call.ret)

\* C1 witness: a second call, here of stop_container, on an unavailable manager.
C1_Witness ==
    /\ docker_manager.created /\ ~docker_manager.docker_available
    /\ calls >= 2
    /\ last_call.op = "stop_container"

\* C2: a run_docker call in which the image was not found locally and the
\* pull failed returns success = false, return_code = -1 and never invokes
\* "docker run".
C2_PullFailureAbortsRun ==
    (last_call.op = "run_docker"
        /\ IssuedAs(last_call.cmds, "images", FALSE)
        /\ IssuedAs(last_call.cmds, "pull", FALSE))
    => /\ last_call.ret.success = FALSE
       /\ last_call.ret.return_code = -1
       /\ ~Issued(last_call.cmds, "run")

\* C2 witness: a run_docker call whose image check and pull both failed.
C2_Witness ==
    /\ last_call.op = "run_docker"
    /\ IssuedAs(last_call.cmds, "images", FALSE)
    /\ IssuedAs(last_call.cmds, "pull", FALSE)
    /\ last_call.ret.error = "Failed to pull image"


\* The availability check of the latest call, if it ran and failed,
\* returned False.
AvailabilityFailureReported ==
    (last_call.avail_fault # "none")
    => (docker_manager.created /\ ~docker_manager.docker_available)

\* C11 as stated: for every failure kind of the external call no exception
\* reaches the caller and the value returned is the boolean False or, for
\* run_docker, a record with success = false and an error string.
C11_FalseOrFailureRecord ==
    (last_call.op \in ApiOps)
    => /\ ~last_call.raised
       /\ AvailabilityFailureReported
       /\ (last_call.fault # "none")
          => IF last_call.op = "run_docker"
             THEN /\ last_call.type = "record"
                  /\ last_call.ret.success = FALSE
                  /\ last_call.ret.error \in STRING
             ELSE /\ last_call.type = "bool"
                  /\ last_call.ret = [bool |-> FALSE]

\* C11, amended: for every failure kind of the external call no exception
\* reaches the caller and the value returned is the boolean False
\* (availability check, check_image, pull_image, stop_container), the
\* empty list (list_containers) or a record with success = false and an
\* error string (run_docker).
C11_FailuresBecomeValues ==
    (last_call.op \in ApiOps)
    => /\ ~last_call.raised
       /\ AvailabilityFailureReported
       /\ (last_call.fault # "none")
          => CASE last_call.op = "run_docker" ->
                    /\ last_call.type = "record"
                    /\ last_call.ret.success = FALSE
                    /\ last_call.ret.error \in STRING
               [] last_call.op = "list_containers" ->
                    /\ last_call.type = "list"
                    /\ last_call.ret = [list |-> << >>]
               [] OTHER ->
                    /\ last_call.type = "bool"
                    /\ last_call.ret = [bool |-> FALSE]

\* C11 witness: on an available manager, "docker ps" timed out in the
\* latest call, which returned the empty list.
C11_Witness ==
    /\ docker_manager.created /\ docker_manager.docker_available
    /\ last_call.op = "list_containers"
    /\ last_call.fault = "timeout"
    /\ last_call.ret = [list |-> << >>]
    /\ ~last_call.raised

\* =====================================================================
\* Properties of one run of main (checked under Spec)
\* =====================================================================
InShutdown == {"sd1", "sd2", "sd3", "sd4"}
Writers(log) == {log[i].by : i \in 1..Len(log)}

\* C3 as stated: no update tick is started after the flag became false.
C3_NoTickAfterClear == late_ticks = 0

\* C3, amended: every evaluation of the loop condition made once the flag
\* is false ends the loop, and at most one update tick (one whose loop
\* condition read the flag before it was cleared) starts after the flag
\* became false.
C3_ClearedFlagEndsLoop ==
    /\ [](late_ticks <= 1)
    /\ [][(pc["main"] = "ka_flag" /\ ~keep_running /\ pc'["main"] # "ka_flag")
             => pc'["main"] \in {"stop", "int_handler"}]_vars

\* C3 witness: the loop has ended after one tick that started with the
\* flag already false.
C3_Witness == late_ticks = 1 /\ pc["main"] = "stop" /\ ~keep_running

\* C4: shutdown() is idempotent. Every step of a shutdown() call made by
\* main after the timeout thread's shutdown() call has returned raises no
\* error, calls close() no further time, and leaves _global_sim_setup and
\* _keep_running as the first call left them.
SecondCallRunning ==
    /\ pc["timeout"] = "done"
    /\ \/ pc["main"] = "sd1"
       \/ /\ pc["main"] \in InShutdown
          /\ \E i \in 1..Len(flag_writes) :
                flag_writes[i] = [by |-> "main", returned |-> 1]

C4_ShutdownIdempotent ==
    [][SecondCallRunning
          => /\ closes' = closes
             /\ global_sim_setup' = global_sim_setup
             /\ keep_running' = keep_running
             /\ pc'["main"] # "crashed"]_vars

\* C4 witness: main's shutdown() started after the timeout thread's had
\* returned, and has returned too; the handle was closed by the first.
C4_Witness ==
    /\ pc["timeout"] = "done" /\ pc["main"] = "done"
    /\ closes = 1
    /\ flag_writes[Len(flag_writes)] = [by |-> "main", returned |-> 1]

\* C5: close() is invoked at most once on the handle.
C5_NoDoubleClose == closes <= 1

\* C6: no update tick starts after close() has been called.
C6_NoUpdateAfterClose == closed_ticks = 0

\* C7: once main has started the robot container, the simulation
\* application is closed only after the container stop has been issued.
C7_StopBeforeClose == (robot_result # "none" /\ closes > 0) => stop_called

\* C8 as stated: in a run of main that has completed, the flag was written
\* exactly once, by the timeout thread or the interrupt handler.
C8_WrittenExactlyOnce ==
    pc["main"] = "done"
    => /\ Len(flag_writes) = 1
       /\ Writers(flag_writes) \subseteq {"timeout", "interrupt"}

\* C8, amended: every write of the flag stores false; the writers are the
\* timeout thread, the interrupt handler and main's teardown shutdown();
\* a run of main that completes its teardown has written the flag between
\* one and four times, one of the writes being main's own shutdown().
C8_WritesOfTheFlag ==
    /\ Writers(flag_writes) \subseteq {"timeout", "interrupt", "main"}
    /\ (flag_writes # << >>) => ~keep_running
    /\ (pc["main"] = "done")
       => /\ Len(flag_writes) \in 1..4
          /\ "main" \in Writers(flag_writes)

\* C8 witness: a completed run in which all three writers wrote the flag.
C8_Witness ==
    /\ pc["main"] = "done"
    /\ Len(flag_writes) = 4
    /\ Writers(flag_writes) = {"timeout", "interrupt", "main"}

\* C9: the flag is monotone: once false it is never true again.
C9_FlagMonotone == [][~keep_running => ~keep_running']_vars

\* C9 witness: the flag is false after writes by the timeout thread, the
\* interrupt handler and shutdown().
C9_Witness ==
    /\ ~keep_running
    /\ Len(flag_writes) >= 3
    /\ {"timeout", "interrupt"} \subseteq Writers(flag_writes)

\* C10: when run_docker reported failure for the robot container, main
\* does not return early: it starts the timeout thread, calls keep_alive(),
\* and after the loop calls stop_and_remove_container() and shutdown().
C10_ContainerFailureNonFatal ==
    robot_result = "failed"
    => /\ pc["main"] \notin {"start", "start_sim", "run_docker",
                             "exit_init_failed", "exit_start_failed"}
       /\ (pc["main"] # "start_thread") => (pc["timeout"] # "unstarted")
       /\ (pc["main"] \in ({"stop", "done", "crashed"} \cup InShutdown)) => ka_entered
       /\ (pc["main"] \in ({"done", "crashed"} \cup InShutdown)) => stop_called
       /\ (pc["main"] \in {"done", "crashed"}) => ("main" \in Writers(flag_writes))

\* C10 witness: main has completed its teardown after a failed container start.
C10_Witness ==
    /\ robot_result = "failed"
    /\ pc["main"] = "done"
    /\ pc["timeout"] # "unstarted"
    /\ ka_entered /\ stop_called


\* C12: when main has returned after run_isaac_sim handed it a simulation
\* handle, close() has been called on that handle.
C12_HandleClosedOnReturn ==
    (pc["main"] \in {"done", "exit_start_failed"}) => (closes >= 1)

\* The timeout thread's sleep has ended.
TimeoutFired == pc["timeout"] \notin {"unstarted", "sleep"}

\* C13: under fair scheduling, once the timeout thread has fired, main
\* eventually has left the update loop, issued the container stop, called
\* shutdown() and returned.
C13_TimeoutLeadsToReturn ==
    TimeoutFired ~> (pc["main"] = "done" /\ stop_called
                     /\ "main" \in Writers(flag_writes))

====
